---- MODULE Spec2Model ----
(***************************************************************************)
(* Event Manager (src/app.py): the per-organizer SQLite partitions with    *)
(* their events and registrations tables, event creation, the guest        *)
(* registration link and form, and guest check-in.                          *)
(*                                                                         *)
(* Text is modelled as a sequence of one-character strings, so that        *)
(* f-string concatenation, character filtering, indexing ([0]) and query   *)
(* string parsing are computed the way the code computes them.              *)
(***************************************************************************)
EXTENDS Integers, Sequences, FiniteSets, TLC

VARIABLES
    now,            \* int(time.time()) / CURRENT_TIMESTAMP, in seconds
    dbs,            \* databases/events_<sanitized_id>.db : sanitized_id -> tables
    session,        \* st.session_state of the organizer's browser
    links,          \* registration URLs issued by show_event_creation, each
                    \* with the event id and the organizer name it was made for
    personal_qr,    \* files personal_qr/<ticket_id>.png
    qp_api,         \* what st.query_params.get returns for a key, which depends on
                    \* the installed framework: a list of values ("list", the
                    \* shape the code's default [""] is written for) or the
                    \* last value as one string ("str")
    last,           \* outcome of the last request (what the page displayed)
    san             \* sanitizer harness: input, result, number of applications

vars == <<now, dbs, session, links, personal_qr, qp_api, last, san>>

-----------------------------------------------------------------------------
(* Bounds *)

MaxTime == 2        \* clock values 1..MaxTime
MaxRows == 3        \* rows of events and registrations, all partitions together
MaxLen == 3         \* length of the sanitizer harness inputs

-----------------------------------------------------------------------------
(* Characters and text *)

AsciiLetters == {"a", "b", "E", "V", "N", "T", "K"}
AsciiDigits == {"0", "1", "2", "3", "4", "5", "6", "7", "8", "9"}
\* a non-ASCII letter (e-acute) and a non-ASCII digit (Arabic-Indic three):
\* str.isalnum() is true of both
UnicodeAlnum == {"U+00E9", "U+0663"}
Whitespace == {" "}

\* Python None / SQL NULL: a text no sequence of characters equals
None == <<"<None>">>

\* str.isalnum() for one character
IsAlnum(c) == c \in AsciiLetters \cup AsciiDigits \cup UnicodeAlnum

RECURSIVE Filter(_, _)
\* "".join(c for c in s if keep(c)), with keep given as a set of characters
Filter(s, keep) ==
    IF s = <<>> THEN <<>>
    ELSE IF Head(s) \in keep THEN <<Head(s)>> \o Filter(Tail(s), keep)
    ELSE Filter(Tail(s), keep)

RECURSIVE rstrip(_)
\* str.rstrip(): drop trailing whitespace
rstrip(s) ==
    IF s = <<>> THEN <<>>
    ELSE IF s[Len(s)] \in Whitespace THEN rstrip(SubSeq(s, 1, Len(s) - 1))
    ELSE s

\* the characters the model draws text from
Punctuation == {"!", "&", "=", "?"}
Alphabet ==
    AsciiLetters \cup AsciiDigits \cup UnicodeAlnum \cup {"-", "_"}
        \cup Whitespace \cup Punctuation

\* the characters with  c.isalnum() or c in ('-', '_')
KeptChars == {c \in Alphabet : IsAlnum(c) \/ c \in {"-", "_"}}

\* EventManager.sanitize_id: join the kept characters, then rstrip
sanitize_id(admin_id) == rstrip(Filter(admin_id, KeptChars))

\* sanitize_admin_id: the same expression, at module level
sanitize_admin_id(admin_id) == rstrip(Filter(admin_id, KeptChars))

RECURSIVE Digits(_)
\* str(n) for n >= 0
Digits(n) ==
    LET d == <<"0", "1", "2", "3", "4", "5", "6", "7", "8", "9">>
    IN IF n < 10 THEN <<d[n + 1]>> ELSE Digits(n \div 10) \o <<d[(n % 10) + 1]>>

-----------------------------------------------------------------------------
(* The registration URL and st.query_params *)

KeyEvent == <<"e", "v", "e", "n", "t">>
KeyAdmin == <<"a", "d", "m", "i", "n">>

\* the query part of f"https://.../?event={event_id}&admin={admin_id}"
registration_url(event_id, admin_id) ==
    KeyEvent \o <<"=">> \o event_id \o <<"&">> \o KeyAdmin \o <<"=">> \o admin_id

RECURSIVE Find(_, _, _)
\* the first index >= i of s that holds sep, 0 when there is none
Find(s, sep, i) ==
    IF i > Len(s) THEN 0 ELSE IF s[i] = sep THEN i ELSE Find(s, sep, i + 1)

RECURSIVE SplitOn(_, _)
\* s.split(sep) for a one-character separator
SplitOn(s, sep) ==
    LET i == Find(s, sep, 1)
    IN IF i = 0 THEN <<s>>
       ELSE <<SubSeq(s, 1, i - 1)>> \o SplitOn(SubSeq(s, i + 1, Len(s)), sep)

\* one "key=value" segment: split on the first "="; no "=" gives an empty value
ParsePair(seg) ==
    LET i == Find(seg, "=", 1)
    IN IF i = 0 THEN <<seg, <<>>>>
       ELSE <<SubSeq(seg, 1, i - 1), SubSeq(seg, i + 1, Len(seg))>>

\* st.query_params for a query string: its "key=value" segments in order,
\* blank segments dropped
QueryPairs(query) ==
    LET segs == SplitOn(query, "&")
        RECURSIVE Collect(_)
        Collect(i) ==
            IF i > Len(segs) THEN <<>>
            ELSE IF segs[i] # <<>> THEN <<ParsePair(segs[i])>> \o Collect(i + 1)
            ELSE Collect(i + 1)
    IN Collect(1)

RECURSIVE QueryValues(_, _)
\* the values the parsed query carries for a key, in order
QueryValues(pairs, key) ==
    IF pairs = <<>> THEN <<>>
    ELSE IF Head(pairs)[1] = key THEN <<Head(pairs)[2]>> \o QueryValues(Tail(pairs), key)
    ELSE QueryValues(Tail(pairs), key)

\* query_params.get(key, [""])[0].  A list-valued mapping (the shape the
\* default [""] is written for) yields the first whole value; the
\* string-valued mapping yields the first character of the last value, and
\* an empty value has no index 0 (IndexError).
query_get0(api, pairs, key) ==
    LET vals == QueryValues(pairs, key)
    IN IF vals = <<>> THEN [raised |-> FALSE, val |-> <<>>]
       ELSE IF api = "list" THEN [raised |-> FALSE, val |-> vals[1]]
       ELSE LET v == vals[Len(vals)]
            IN IF v = <<>> THEN [raised |-> TRUE, val |-> <<>>]
               ELSE [raised |-> FALSE, val |-> <<v[1]>>]

-----------------------------------------------------------------------------
(* Tables (EventManager.init_db) *)

\* a database file right after init_db: both tables exist and are empty
EmptyTables == [events |-> <<>>, registrations |-> <<>>]

\* EventManager.__init__: the organizer's file is created when it is missing
init_db(d, sid) ==
    IF sid \in DOMAIN d THEN d
    ELSE [x \in DOMAIN d \cup {sid} |-> IF x = sid THEN EmptyTables ELSE d[x]]

\* os.path.exists(db_path)
db_exists(d, sid) == sid \in DOMAIN d

Range(f) == {f[i] : i \in DOMAIN f}

\* SELECT * FROM registrations: the row as a tuple, by 0-based column index
\* (id, event_id, name, phone, email, company, dietary, event_type, ticket_id,
\*  registered_at, checked_in); text and integer columns keep their type
Col(row, i) ==
    CASE i = 0 -> [type |-> "int", int |-> row.id, text |-> <<>>]
      [] i = 1 -> [type |-> "text", int |-> 0, text |-> row.event_id]
      [] i = 2 -> [type |-> "text", int |-> 0, text |-> row.name]
      [] i = 3 -> [type |-> "text", int |-> 0, text |-> row.phone]
      [] i = 4 -> [type |-> "text", int |-> 0, text |-> row.email]
      [] i = 5 -> [type |-> "text", int |-> 0, text |-> row.company]
      [] i = 6 -> [type |-> "text", int |-> 0, text |-> row.dietary]
      [] i = 7 -> [type |-> "text", int |-> 0, text |-> <<row.event_type>>]
      [] i = 8 -> [type |-> "text", int |-> 0, text |-> row.ticket_id]
      [] i = 9 -> [type |-> "text", int |-> 0, text |-> Digits(row.registered_at)]
      [] i = 10 -> [type |-> "int", int |-> row.checked_in, text |-> <<>>]

\* Python's  value == n  for an integer n: a text never equals an integer
EqInt(v, n) == v.type = "int" /\ v.int = n

\* Python's  value or default : None, "" and 0 are falsy
OrDefault(v, default) ==
    IF v.type = "text"
    THEN (IF v.text \in {None, <<>>} THEN default ELSE v.text)
    ELSE (IF v.int = 0 THEN default ELSE Digits(v.int))

-----------------------------------------------------------------------------
(* EventManager: create_event, get_events *)

EVENT_ == <<"E", "V", "E", "N", "T", "-">>
TKT_ == <<"T", "K", "T", "-">>
Guest == <<"G", "u", "e", "s", "t">>

\* f"EVENT-{self.sanitize_id(event_name)}-{int(time.time())}"
make_event_id(event_name, t) == EVENT_ \o sanitize_id(event_name) \o <<"-">> \o Digits(t)

\* INSERT INTO events: event_id is the PRIMARY KEY, a duplicate raises
\* sqlite3.IntegrityError and the table is left as it was
insert_event(tables, row) ==
    IF \E i \in DOMAIN tables.events : tables.events[i].event_id = row.event_id
    THEN [ok |-> FALSE, tables |-> tables]
    ELSE [ok |-> TRUE, tables |-> [tables EXCEPT !.events = Append(@, row)]]

\* EventManager.create_event; form_fields.get(k, default) of a dict that has
\* every key: the checkbox values as stored (1 / 0)
create_event(tables, event_name, event_date, event_description, form_fields, t) ==
    LET event_id == make_event_id(event_name, t)
        row == [event_id |-> event_id, event_name |-> event_name,
                event_date |-> event_date, event_description |-> event_description,
                collect_name |-> form_fields.name, collect_phone |-> form_fields.phone,
                collect_email |-> form_fields.email,
                collect_company |-> form_fields.company,
                collect_dietary |-> form_fields.dietary,
                created_at |-> t]
        ins == insert_event(tables, row)
    IN [raised |-> ~ins.ok, tables |-> ins.tables, event_id |-> event_id]

\* the orders  ORDER BY created_at DESC  may return: every permutation of the
\* rows with created_at non-increasing (rows of one second come in any order)
OrderedByCreatedDesc(events) ==
    LET n == Len(events)
        perms == {p \in [1..n -> 1..n] : \A i, j \in 1..n : i # j => p[i] # p[j]}
    IN {[i \in 1..n |-> events[p[i]]] : p \in
            {q \in perms : \A i \in 1..(n - 1) :
                events[q[i]].created_at >= events[q[i + 1]].created_at}}

\* EventManager.get_events: (event_id, event_name, event_date, event_description)
get_events(tables) ==
    {[i \in 1..Len(evs) |->
        [event_id |-> evs[i].event_id, event_name |-> evs[i].event_name,
         event_date |-> evs[i].event_date,
         event_description |-> evs[i].event_description]] :
     evs \in OrderedByCreatedDesc(tables.events)}

\* get_event_details: the events row of the partition the given name
\* sanitizes to, or None (no such file, no such event_id)
NoEvent == [found |-> FALSE]
get_event_details(d, admin_id, event_id) ==
    LET sid == sanitize_admin_id(admin_id)
    IN IF ~db_exists(d, sid) THEN NoEvent
       ELSE LET hits == {i \in DOMAIN d[sid].events :
                            d[sid].events[i].event_id = event_id}
            IN IF hits = {} THEN NoEvent
               ELSE [found |-> TRUE, row |-> d[sid].events[CHOOSE i \in hits : TRUE]]

-----------------------------------------------------------------------------
(* show_guest_registration: the form, its validation, the insert *)

SelectPackage == "Select package"
Packages == {SelectPackage, "Karaoke Only", "Karaoke + Paint & Sip"}

\* form_data: a key exists only for a field the event collects;
\* form_data.get(key) of a missing key is None
form_data(ev, input) ==
    [name |-> IF ev.collect_name = 1 THEN input.name ELSE None,
     phone |-> IF ev.collect_phone = 1 THEN input.phone ELSE None,
     email |-> IF ev.collect_email = 1 THEN input.email ELSE None,
     company |-> IF ev.collect_company = 1 THEN input.company ELSE None,
     dietary |-> IF ev.collect_dietary = 1 THEN input.dietary ELSE None,
     event_type |-> input.event_type]

\* Python truthiness of a form value
Falsy(v) == v \in {None, <<>>}

\* required_fields with a seeded fault: the package selection is not validated
required_fields_without_package(ev, fd) ==
    (IF ev.collect_name = 1 /\ Falsy(fd.name) THEN <<"Full Name">> ELSE <<>>)
    \o (IF ev.collect_phone = 1 /\ Falsy(fd.phone) THEN <<"Phone Number">> ELSE <<>>)
    \o (IF ev.collect_email = 1 /\ Falsy(fd.email) THEN <<"Email Address">> ELSE <<>>)

\* the required_fields list built on submission
required_fields(ev, fd) ==
    (IF ev.collect_name = 1 /\ Falsy(fd.name) THEN <<"Full Name">> ELSE <<>>)
    \o (IF ev.collect_phone = 1 /\ Falsy(fd.phone) THEN <<"Phone Number">> ELSE <<>>)
    \o (IF ev.collect_email = 1 /\ Falsy(fd.email) THEN <<"Email Address">> ELSE <<>>)
    \o (IF fd.event_type = SelectPackage THEN <<"Event Package">> ELSE <<>>)

\* phone = form_data.get('phone', '');
\* f"TKT-{phone}-{int(time.time())}" if phone else f"TKT-{int(time.time())}"
make_ticket_id(fd, t) ==
    LET phone == IF fd.phone = None THEN <<>> ELSE fd.phone
    IN IF phone # <<>> THEN TKT_ \o phone \o <<"-">> \o Digits(t)
       ELSE TKT_ \o Digits(t)

\* insert_registration with a seeded fault: ticket_id without its UNIQUE constraint
insert_registration_without_unique(tables, event_id, fd, ticket_id, t) ==
    [ok |-> TRUE,
     tables |-> [tables EXCEPT !.registrations = Append(@,
                [id |-> Len(tables.registrations) + 1,
                 event_id |-> event_id,
                 name |-> fd.name, phone |-> fd.phone, email |-> fd.email,
                 company |-> fd.company, dietary |-> fd.dietary,
                 event_type |-> fd.event_type,
                 ticket_id |-> ticket_id,
                 registered_at |-> t,
                 checked_in |-> 0])]]

\* insert_registration with a seeded fault: conn.commit() is missing, the row
\* is lost when the connection closes
insert_registration_not_committed(tables, event_id, fd, ticket_id, t) ==
    IF \E i \in DOMAIN tables.registrations :
           tables.registrations[i].ticket_id = ticket_id
    THEN [ok |-> FALSE, tables |-> tables]
    ELSE [ok |-> TRUE, tables |-> tables]

\* insert_registration with a seeded fault: the values for email and company
\* are bound in the wrong order
insert_registration_values_swapped(tables, event_id, fd, ticket_id, t) ==
    IF \E i \in DOMAIN tables.registrations :
           tables.registrations[i].ticket_id = ticket_id
    THEN [ok |-> FALSE, tables |-> tables]
    ELSE [ok |-> TRUE,
          tables |-> [tables EXCEPT !.registrations = Append(@,
                [id |-> Len(tables.registrations) + 1,
                 event_id |-> event_id,
                 name |-> fd.name, phone |-> fd.phone, email |-> fd.company,
                 company |-> fd.email, dietary |-> fd.dietary,
                 event_type |-> fd.event_type,
                 ticket_id |-> ticket_id,
                 registered_at |-> t,
                 checked_in |-> 0])]]

\* INSERT INTO registrations: ticket_id is UNIQUE, a duplicate raises
\* sqlite3.IntegrityError and the table is left as it was; id is the
\* AUTOINCREMENT key, registered_at and checked_in take their defaults
insert_registration(tables, event_id, fd, ticket_id, t) ==
    IF \E i \in DOMAIN tables.registrations :
           tables.registrations[i].ticket_id = ticket_id
    THEN [ok |-> FALSE, tables |-> tables]
    ELSE [ok |-> TRUE,
          tables |-> [tables EXCEPT !.registrations = Append(@,
                [id |-> Len(tables.registrations) + 1,
                 event_id |-> event_id,
                 name |-> fd.name, phone |-> fd.phone, email |-> fd.email,
                 company |-> fd.company, dietary |-> fd.dietary,
                 event_type |-> fd.event_type,
                 ticket_id |-> ticket_id,
                 registered_at |-> t,
                 checked_in |-> 0])]]

\* generate_qr_code(ticket_id, f"personal_qr/{ticket_id}.png"): img.save opens
\* the path for writing, which fails when the ticket id holds a "/" (the
\* directory personal_qr/<prefix> does not exist)
qr_save_ok(ticket_id) == \A i \in 1..Len(ticket_id) : ticket_id[i] # "/"

-----------------------------------------------------------------------------
(* check_in_guest *)

\* select_guest with a seeded fault: the lookup by ticket_id alone
select_guest_by_ticket_only(tables, ticket_id, event_id) ==
    {i \in DOMAIN tables.registrations :
        tables.registrations[i].ticket_id = ticket_id}

\* SELECT * FROM registrations WHERE ticket_id = ? AND event_id = ? ; fetchone()
select_guest(tables, ticket_id, event_id) ==
    {i \in DOMAIN tables.registrations :
        /\ tables.registrations[i].ticket_id = ticket_id
        /\ tables.registrations[i].event_id = event_id}

\* UPDATE registrations SET checked_in = 1 WHERE ticket_id = ?
update_checked_in(tables, ticket_id) ==
    [tables EXCEPT !.registrations =
        [i \in DOMAIN @ |-> IF @[i].ticket_id = ticket_id
                            THEN [@[i] EXCEPT !.checked_in = 1] ELSE @[i]]]

\* check_in_guest: what it shows and the tables it leaves
check_in_guest(tables, ticket_id, event_id) ==
    LET hits == select_guest(tables, ticket_id, event_id)
    IN IF hits # {}
       THEN LET guest == tables.registrations[CHOOSE i \in hits : TRUE]
            IN IF EqInt(Col(guest, 9), 1)
               THEN [kind |-> "already_checked_in", tables |-> tables,
                     shown |-> OrDefault(Col(guest, 1), Guest)]
               ELSE [kind |-> "checked_in",
                     tables |-> update_checked_in(tables, ticket_id),
                     shown |-> OrDefault(Col(guest, 1), Guest)]
       ELSE [kind |-> "not_found", tables |-> tables, shown |-> <<>>]

-----------------------------------------------------------------------------
(* Inputs *)

AdminNames == {<<"a">>, <<"a", "!">>, <<"a", "&", "b">>}
\* what an organizer fills into the create_event form: the name, the date, the
\* description and the checkboxes (True / False stored as 1 / 0); the two
\* names have the same sanitized form
EventForms ==
    {[event_name |-> <<"a">>, event_date |-> <<"1">>, event_description |-> <<>>,
      form_fields |-> [name |-> 1, phone |-> 1, email |-> 1, company |-> 0,
                       dietary |-> 0]],
     [event_name |-> <<"a", "!">>, event_date |-> <<"1">>, event_description |-> <<>>,
      form_fields |-> [name |-> 1, phone |-> 0, email |-> 0, company |-> 1,
                       dietary |-> 0]]}
\* what a guest types and selects (a widget the form does not show is ignored):
\* two complete forms, the second with a "/" in the phone number, then each
\* required value missing in turn, then all of them missing
FullInput == [name |-> <<"n">>, phone |-> <<"5">>, email |-> <<"m">>,
              company |-> <<"c">>, dietary |-> <<>>, event_type |-> "Karaoke Only"]
FormInputs ==
    {FullInput,
     [FullInput EXCEPT !.phone = <<"6", "/">>],
     [FullInput EXCEPT !.name = <<>>],
     [FullInput EXCEPT !.phone = <<>>],
     [FullInput EXCEPT !.email = <<>>],
     [FullInput EXCEPT !.event_type = SelectPackage],
     [FullInput EXCEPT !.name = <<>>, !.phone = <<>>, !.email = <<>>,
                       !.event_type = SelectPackage]}
BogusTicket == <<"T", "K", "T", "-", "0">>
BogusEvent == <<"E">>

AllEventIds(d) == UNION {{d[sid].events[i].event_id : i \in DOMAIN d[sid].events} :
                         sid \in DOMAIN d}
AllTicketIds(d) ==
    UNION {{d[sid].registrations[i].ticket_id : i \in DOMAIN d[sid].registrations} :
           sid \in DOMAIN d}

\* what a guest may put in the address bar: an issued link, a link made up
\* from an event id and an organizer name, a link with a parameter missing
GuestUrls ==
    {l.url : l \in links}
    \cup {registration_url(e, a) : e \in AllEventIds(dbs), a \in AdminNames}
    \cup {registration_url(BogusEvent, <<"a">>),
          KeyEvent \o <<"=">> \o BogusEvent,
          KeyEvent \o <<"=", "&">> \o KeyAdmin \o <<"=", "a">>}

-----------------------------------------------------------------------------
(* State *)

LoggedOut == [authenticated |-> FALSE, admin_id |-> None]

Init ==
    /\ now = 1
    /\ dbs = <<>>
    /\ session = LoggedOut
    /\ links = {}
    /\ personal_qr = {}
    /\ qp_api \in {"list", "str"}
    /\ last = [op |-> "start"]
    /\ san = [in |-> <<>>, once |-> <<>>, out |-> <<>>, n |-> 0]

RECURSIVE SumOver(_, _)
SumOver(f, S) ==
    IF S = {} THEN 0
    ELSE LET x == CHOOSE y \in S : TRUE IN f[x] + SumOver(f, S \ {x})

EventCount(d) == SumOver([sid \in DOMAIN d |-> Len(d[sid].events)], DOMAIN d)
RegCount(d) == SumOver([sid \in DOMAIN d |-> Len(d[sid].registrations)], DOMAIN d)

\* the wall clock advances by a second
Tick ==
    /\ now < MaxTime
    /\ now' = now + 1
    /\ last' = [op |-> "tick"]
    /\ UNCHANGED <<dbs, session, links, personal_qr, qp_api, san>>

\* the URL show_event_creation prints and encodes as the event's QR code
IssueLink(event_id, admin_id) ==
    [url |-> registration_url(event_id, admin_id), event_id |-> event_id,
     admin_id |-> admin_id]

\* admin_dashboard with the menu on "Dashboard": EventManager(admin_id), then
\* show_dashboard lists get_events(), each event with the URL
\* registration_url(event_id, admin_id) of the organizer looking at it
ShowDashboard(admin_id) ==
    LET sid == sanitize_id(admin_id)
        d1 == init_db(dbs, sid)
    IN /\ dbs' = d1
       /\ \E evs \in get_events(d1[sid]) :
            last' = [op |-> "dashboard", admin_id |-> admin_id, events |-> evs]

\* admin_auth: either form stores the name and sets authenticated, then st.rerun()
\* runs main again, which shows the dashboard
Login(name) ==
    /\ ~session.authenticated
    /\ name # <<>>
    /\ session' = [authenticated |-> TRUE, admin_id |-> name]
    /\ ShowDashboard(name)
    /\ UNCHANGED <<now, links, personal_qr, qp_api, san>>

\* the menu goes back to "Dashboard"
Dashboard ==
    /\ session.authenticated
    /\ ShowDashboard(session.admin_id)
    /\ UNCHANGED <<now, session, links, personal_qr, qp_api, san>>

\* the Logout button: every session key is deleted
Logout ==
    /\ session.authenticated
    /\ session' = LoggedOut
    /\ last' = [op |-> "logout"]
    /\ UNCHANGED <<now, dbs, links, personal_qr, qp_api, san>>

\* show_event_creation, submitted with a non-empty event name
CreateEvent(event_name, event_date, event_description, form_fields) ==
    /\ session.authenticated
    /\ event_name # <<>>
    /\ LET admin_id == session.admin_id
           sid == sanitize_id(admin_id)
           d1 == init_db(dbs, sid)
           r == create_event(d1[sid], event_name, event_date, event_description,
                             form_fields, now)
       IN /\ r.raised \/ EventCount(d1) + RegCount(d1) < MaxRows
          /\ IF r.raised
             THEN /\ dbs' = d1
                  /\ last' = [op |-> "create_event", kind |-> "exception",
                              admin_id |-> admin_id, event_id |-> r.event_id]
                  /\ UNCHANGED links
             ELSE /\ dbs' = [d1 EXCEPT ![sid] = r.tables]
                  /\ links' = links \cup {IssueLink(r.event_id, admin_id)}
                  /\ last' = [op |-> "create_event", kind |-> "created",
                              admin_id |-> admin_id, event_id |-> r.event_id]
    /\ UNCHANGED <<now, session, personal_qr, qp_api, san>>

\* {f"{name} - {date}": id for id, name, date, _ in events}: a later entry of
\* the list replaces an earlier one with the same label
event_options(evs) ==
    LET label(i) == evs[i].event_name \o <<" ", "-", " ">> \o evs[i].event_date
        labels == {label(i) : i \in DOMAIN evs}
    IN [k \in labels |->
          evs[CHOOSE i \in DOMAIN evs :
                  label(i) = k /\ \A j \in DOMAIN evs : label(j) = k => j <= i].event_id]

\* show_check_in: pick an event of the select box, type a ticket id, press the button
CheckIn(ticket_id) ==
    /\ session.authenticated
    /\ LET admin_id == session.admin_id
           sid == sanitize_id(admin_id)
           d1 == init_db(dbs, sid)
       IN \E evs \in get_events(d1[sid]) :
            IF evs = <<>>
            THEN /\ dbs' = d1
                 /\ last' = [op |-> "check_in", kind |-> "no_events",
                             ticket_id |-> ticket_id, event_id |-> <<>>, shown |-> <<>>]
            ELSE \E selected_event \in DOMAIN event_options(evs) :
                   LET event_id == event_options(evs)[selected_event]
                       r == check_in_guest(d1[sid], ticket_id, event_id)
                   IN IF ticket_id = <<>>
                      THEN /\ dbs' = d1
                           /\ last' = [op |-> "check_in", kind |-> "no_ticket",
                                       ticket_id |-> ticket_id,
                                       event_id |-> event_id, shown |-> <<>>]
                      ELSE /\ dbs' = [d1 EXCEPT ![sid] = r.tables]
                           /\ last' = [op |-> "check_in", kind |-> r.kind,
                                       ticket_id |-> ticket_id,
                                       event_id |-> event_id, shown |-> r.shown]
    /\ UNCHANGED <<now, session, links, personal_qr, qp_api, san>>

\* main's routing on the two query parameters, then the head of
\* show_guest_registration: the parameters as read, and the event they resolve to
Resolve(api, d, url) ==
    LET query_params == QueryPairs(url)
        e == query_get0(api, query_params, KeyEvent)
        a == query_get0(api, query_params, KeyAdmin)
    IN IF e.raised \/ a.raised
       THEN [kind |-> "exception", event_id |-> e.val, admin_id |-> a.val]
       ELSE IF ~(e.val # <<>> /\ a.val # <<>>)
       THEN [kind |-> "admin_page", event_id |-> e.val, admin_id |-> a.val]
       ELSE IF ~(e.val # <<>>) \/ ~(a.val # <<>>)
       THEN [kind |-> "invalid_link", event_id |-> e.val, admin_id |-> a.val]
       ELSE LET found == get_event_details(d, a.val, e.val)
            IN IF ~found.found
               THEN [kind |-> "event_not_found", event_id |-> e.val, admin_id |-> a.val]
               ELSE [kind |-> "form", event_id |-> e.val, admin_id |-> a.val,
                     event_data |-> found.row]

\* the body of  if submitted:  for the event the page resolved
Submit(d, r, input, t) ==
    LET ev == r.event_data
        fd == form_data(ev, input)
        req == required_fields(ev, fd)
        sid == sanitize_admin_id(r.admin_id)
        ticket_id == make_ticket_id(fd, t)
        ins == insert_registration(d[sid], r.event_id, fd, ticket_id, t)
        d2 == [d EXCEPT ![sid] = ins.tables]
        base == [kind |-> "rejected", event_data |-> ev, form_data |-> fd,
                 sanitized_admin_id |-> sid,
                 missing |-> req, ticket_id |-> <<>>,
                 attempts |-> 0, collision |-> FALSE, dbs |-> d, qr |-> {}]
    IN IF req # <<>> THEN base
       ELSE IF ~ins.ok
       THEN [base EXCEPT !.kind = "failed", !.ticket_id = ticket_id,
                         !.attempts = 1, !.collision = TRUE]
       ELSE IF ~qr_save_ok(ticket_id)
       THEN [base EXCEPT !.kind = "failed", !.ticket_id = ticket_id,
                         !.attempts = 1, !.dbs = d2]
       ELSE [base EXCEPT !.kind = "registered", !.ticket_id = ticket_id,
                         !.attempts = 1, !.dbs = d2, !.qr = {ticket_id}]

\* a guest opens a URL: the form, or the page that is shown instead of it
GuestOpen(url) ==
    /\ \E r \in {Resolve(qp_api, dbs, url)} :
         last' = [op |-> "guest_open", kind |-> r.kind]
    /\ UNCHANGED <<now, dbs, session, links, personal_qr, qp_api, san>>

\* a guest on a displayed form fills it and presses "Register Now": the script
\* runs again from main with the same URL, and takes the  if submitted:  branch
GuestSubmit(url) ==
    /\ \E r \in {Resolve(qp_api, dbs, url)} :
         /\ r.kind = "form"
         /\ \E input \in FormInputs :
              \E o \in {Submit(dbs, r, input, now)} :
                /\ EventCount(o.dbs) + RegCount(o.dbs) <= MaxRows
                /\ dbs' = o.dbs
                /\ personal_qr' = personal_qr \cup o.qr
                /\ last' = [op |-> "guest_submit", kind |-> o.kind,
                            event_data |-> o.event_data, form_data |-> o.form_data,
                            sanitized_admin_id |-> o.sanitized_admin_id,
                            missing |-> o.missing, ticket_id |-> o.ticket_id,
                            attempts |-> o.attempts, collision |-> o.collision]
    /\ UNCHANGED <<now, session, links, qp_api, san>>

Next ==
    \/ Tick
    \/ \E name \in AdminNames : Login(name)
    \/ Dashboard
    \/ Logout
    \/ \E f \in EventForms :
          CreateEvent(f.event_name, f.event_date, f.event_description, f.form_fields)
    \/ \E t \in AllTicketIds(dbs) \cup {BogusTicket, <<>>} : CheckIn(t)
    \/ \E url \in GuestUrls : GuestOpen(url)
    \/ \E url \in GuestUrls : GuestSubmit(url)

Spec == Init /\ [][Next]_vars

-----------------------------------------------------------------------------
(* The sanitizer on its own: every text over SanAlphabet up to MaxLen *)

SanAlphabet == {"a", "1", "-", "_", " ", "!", "U+00E9"}

RECURSIVE Texts(_, _)
Texts(chars, n) ==
    IF n = 0 THEN {<<>>}
    ELSE Texts(chars, n - 1) \cup
         {Append(s, c) : s \in {x \in Texts(chars, n - 1) : Len(x) = n - 1}, c \in chars}

InitSan ==
    /\ now = 1 /\ dbs = <<>> /\ session = LoggedOut /\ links = {}
    /\ personal_qr = {} /\ qp_api = "list" /\ last = [op |-> "start"]
    /\ \E s \in Texts(SanAlphabet, MaxLen) :
         san = [in |-> s, once |-> s, out |-> s, n |-> 0]

\* the sanitizer applied to the text in hand (first the name, then its own
\* result); once keeps the result of the first application
Sanitized(out) ==
    /\ san.n < 2
    /\ san' = [san EXCEPT !.out = out, !.n = @ + 1,
                          !.once = IF san.n = 0 THEN out ELSE @]
    /\ UNCHANGED <<now, dbs, session, links, personal_qr, qp_api, last>>

\* EventManager(admin_id).sanitize_id
ApplySanitizeId == Sanitized(sanitize_id(san.out))

\* sanitize_admin_id
ApplySanitizeAdminId == Sanitized(sanitize_admin_id(san.out))

NextSan == ApplySanitizeId \/ ApplySanitizeAdminId

SpecSan == InitSan /\ [][NextSan]_vars

-----------------------------------------------------------------------------
(* Properties *)

\* the partition of the organizer who is logged in
SessionSid == sanitize_id(session.admin_id)

Registrations(d, sid) == IF sid \in DOMAIN d THEN Range(d[sid].registrations) ELSE {}

\* a step in which check_in_guest ran (the button was pressed with a ticket id)
CheckInStep ==
    /\ last'.op = "check_in"
    /\ last'.kind \in {"checked_in", "already_checked_in", "not_found"}

\* the registration the check-in addressed, as it was before the step
Addressed ==
    {r \in Registrations(dbs, SessionSid) :
        r.ticket_id = last'.ticket_id /\ r.event_id = last'.event_id}

\* C1: check-in is idempotent.  A check-in of a registration that is not yet
\* checked in sets checked_in and reports success; a check-in of a
\* registration that is already checked in reports "already checked in" and
\* leaves every registration record unchanged.
C1_CheckInIdempotent ==
    [][CheckInStep =>
        \A r \in Addressed :
            IF r.checked_in = 0
            THEN /\ last'.kind = "checked_in"
                 /\ [r EXCEPT !.checked_in = 1] \in Registrations(dbs', SessionSid)
            ELSE /\ last'.kind = "already_checked_in"
                 /\ dbs' = dbs]_vars

\* C2: when no registration of the organizer's partition has the ticket id
\* together with the selected event id, check_in_guest reports "not found"
\* and no table changes.
C2_UnknownTicketNotFound ==
    [][(CheckInStep /\ Addressed = {}) =>
        (last'.kind = "not_found" /\ dbs' = dbs)]_vars

\* C2 witness: "not found" was reported for a ticket that exists in the
\* organizer's partition, under another event than the selected one
C2_Witness ==
    /\ last.op = "check_in" /\ last.kind = "not_found"
    /\ session.authenticated
    /\ \E r \in Registrations(dbs, SessionSid) :
         r.ticket_id = last.ticket_id /\ r.event_id # last.event_id

\* the required values a form leaves empty, by the label the page reports
EmptyRequired(ev, fd) ==
    {x \in {"Full Name", "Phone Number", "Email Address", "Event Package"} :
        \/ x = "Full Name" /\ ev.collect_name = 1 /\ fd.name = <<>>
        \/ x = "Phone Number" /\ ev.collect_phone = 1 /\ fd.phone = <<>>
        \/ x = "Email Address" /\ ev.collect_email = 1 /\ fd.email = <<>>
        \/ x = "Event Package" /\ fd.event_type = SelectPackage}

\* C3: a submission that leaves a collected name, phone or email empty, or
\* the package on "Select package", is rejected, the page names exactly the
\* missing fields, and the tables are the same before and after.
C3_InvalidSubmissionRejected ==
    [][(last'.op = "guest_submit"
        /\ EmptyRequired(last'.event_data, last'.form_data) # {}) =>
       /\ last'.kind = "rejected"
       /\ Range(last'.missing) = EmptyRequired(last'.event_data, last'.form_data)
       /\ dbs' = dbs]_vars

\* C3 witness: a submission was rejected while a registration was on file
C3_Witness ==
    /\ last.op = "guest_submit" /\ last.kind = "rejected"
    /\ last.missing # <<>>
    /\ RegCount(dbs) >= 1

TicketIds(d, sid) == {r.ticket_id : r \in Registrations(d, sid)}

\* C4: every valid submission is persisted, and the persisted registrations
\* of a partition carry pairwise distinct ticket ids, also when submissions
\* fall into the same clock second.
C4_EveryValidSubmissionPersisted ==
    [][(last'.op = "guest_submit"
        /\ EmptyRequired(last'.event_data, last'.form_data) = {}) =>
       /\ RegCount(dbs') = RegCount(dbs) + 1
       /\ \A sid \in DOMAIN dbs' :
            Cardinality(TicketIds(dbs', sid)) = Len(dbs'[sid].registrations)]_vars

\* C5: in every reachable state no two registration records of a partition
\* have the same ticket_id.
C5_TicketIdUnique ==
    \A sid \in DOMAIN dbs :
        \A i, j \in DOMAIN dbs[sid].registrations :
            i # j => dbs[sid].registrations[i].ticket_id
                     # dbs[sid].registrations[j].ticket_id

\* C5 witness: a partition holds two registrations, one of them checked in
C5_Witness ==
    \E sid \in DOMAIN dbs :
        /\ Len(dbs[sid].registrations) >= 2
        /\ \E r \in Registrations(dbs, sid) : r.checked_in = 1

\* the events an organizer name created
CreatedBy(admin_id) == {l.event_id : l \in {x \in links : x.admin_id = admin_id}}

\* C6: cross-tenant isolation.  get_events for an organizer returns only
\* events that organizer created, and get_event_details with another
\* organizer's name and the id of an event resolves to nothing of the
\* creator's.
C6_CrossTenantIsolation ==
    /\ last.op = "dashboard" =>
         \A i \in DOMAIN last.events :
             last.events[i].event_id \in CreatedBy(last.admin_id)
    /\ \A l \in links : \A other \in AdminNames \ {l.admin_id} :
         get_event_details(dbs, other, l.event_id).found
             => l.event_id \in CreatedBy(other)

\* C7: opening the link that event creation issued for an event shows that
\* event's form, and the lookup uses the complete event id and organizer
\* name the link carries.
C7_IssuedLinkResolves ==
    [][\A l \in links :
         (last'.op = "guest_open" /\ GuestOpen(l.url)) =>
            LET r == Resolve(qp_api, dbs, l.url)
            IN /\ r.kind = "form"
               /\ r.event_id = l.event_id
               /\ r.admin_id = l.admin_id
               /\ r.event_data.event_id = l.event_id]_vars

AsciiSafe == AsciiLetters \cup AsciiDigits \cup {"-", "_"}

\* C8: the sanitizer's result holds only characters of [A-Za-z0-9_-], and
\* sanitizing the result again returns it unchanged.
C8_SanitizerAsciiIdempotent ==
    /\ san.n >= 1 => \A i \in 1..Len(san.out) : san.out[i] \in AsciiSafe
    /\ san.n = 2 => san.out = san.once

\* C9: every create_event call persists one new event record and returns an
\* event_id no event of the partition had before; event_id stays unique per
\* partition.
C9_CreateEventAlwaysNewId ==
    [][last'.op = "create_event" =>
        /\ last'.kind = "created"
        /\ EventCount(dbs') = EventCount(dbs) + 1
        /\ \A sid \in DOMAIN dbs' :
             Cardinality({dbs'[sid].events[i].event_id : i \in DOMAIN dbs'[sid].events})
                 = Len(dbs'[sid].events)]_vars

\* C10: a ticket collision is retried with a regenerated ticket id: the
\* failure message appears only after more than one insert was attempted.
C10_CollisionRetried ==
    (last.op = "guest_submit" /\ last.collision) => last.attempts >= 2

\* the registrations of any partition that carry a ticket id
Holders(d, ticket_id) ==
    UNION {{r \in Registrations(d, sid) : r.ticket_id = ticket_id} : sid \in DOMAIN d}

\* C11: the registration row is committed before its ticket is generated.
\* In every reachable state each personal QR file carries the ticket_id of a
\* committed registration, and a step that writes a new personal QR file is a
\* submission whose row, bound to the submission's event, is in the
\* partition of the link's organizer after the step and was not before.
C11_TicketAfterCommit ==
    /\ [](\A t \in personal_qr : Holders(dbs, t) # {})
    /\ [][\A t \in personal_qr' \ personal_qr :
            /\ last'.op = "guest_submit" /\ last'.ticket_id = t
            /\ t \notin TicketIds(dbs, last'.sanitized_admin_id)
            /\ \E r \in Registrations(dbs', last'.sanitized_admin_id) :
                 r.ticket_id = t /\ r.event_id = last'.event_data.event_id]_vars

\* C11 witness: a submission ended with its QR file written, and another
\* submission's row is committed with no QR file (its file could not be saved)
C11_Witness ==
    /\ last.op = "guest_submit" /\ last.kind = "registered"
    /\ last.ticket_id \in personal_qr
    /\ \E sid \in DOMAIN dbs : TicketIds(dbs, sid) \ personal_qr # {}

\* a submission step that passed validation and whose generated ticket id no
\* registration of the partition had
ValidSubmissionNoCollision ==
    /\ last'.op = "guest_submit"
    /\ EmptyRequired(last'.event_data, last'.form_data) = {}
    /\ last'.ticket_id \notin TicketIds(dbs, last'.sanitized_admin_id)

\* C12: a submission that passes validation against an existing event, with
\* no ticket collision, appends exactly one registration to the partition
\* that holds the event, with the event's id, the submitted field values and
\* checked_in = 0; the registrations that were there, the events of the
\* partition and every other partition are as before.
C12_ValidSubmissionFrame ==
    [][ValidSubmissionNoCollision =>
        LET sid == last'.sanitized_admin_id
            fd == last'.form_data
            old == dbs[sid].registrations
            new == dbs'[sid].registrations
            added == new[Len(new)]
        IN /\ last'.event_data \in Range(dbs[sid].events)
           /\ DOMAIN dbs' = DOMAIN dbs
           /\ \A other \in DOMAIN dbs \ {sid} : dbs'[other] = dbs[other]
           /\ dbs'[sid].events = dbs[sid].events
           /\ Len(new) = Len(old) + 1
           /\ SubSeq(new, 1, Len(old)) = old
           /\ added.event_id = last'.event_data.event_id
           /\ added.name = fd.name /\ added.phone = fd.phone
           /\ added.email = fd.email /\ added.company = fd.company
           /\ added.dietary = fd.dietary /\ added.event_type = fd.event_type
           /\ added.ticket_id = last'.ticket_id
           /\ added.checked_in = 0]_vars

\* C12 witness: a submission was registered into a partition that already
\* held a registration, and its row is the last of the table
C12_Witness ==
    /\ last.op = "guest_submit" /\ last.kind = "registered"
    /\ LET regs == dbs[last.sanitized_admin_id].registrations
       IN /\ Len(regs) >= 2
          /\ regs[Len(regs)].ticket_id = last.ticket_id
          /\ regs[Len(regs)].company # regs[Len(regs)].email

\* C13: a submission that ends with "Registration failed" has added no
\* registration: the registrations tables are the same before and after it.
C13_FailedSubmissionAddsNoRow ==
    [][(last'.op = "guest_submit" /\ last'.kind = "failed") =>
        \A sid \in DOMAIN dbs' :
            Registrations(dbs', sid) = Registrations(dbs, sid)]_vars

====
